---- MODULE Spec2Model ----
(***************************************************************************)
(* Terminal input decoder (package input): the key table built by          *)
(* Driver.registerKeys, the SGR and X10 mouse decoders, the color-reply    *)
(* decoder and the Windows console key translator.                         *)
(*                                                                         *)
(* Byte strings are sequences of byte values; a rune is its code point and *)
(* 0 is Go's zero rune.  A Mod is the four-bit set Shift|Alt|Ctrl|Meta.    *)
(***************************************************************************)
EXTENDS Integers, Sequences, FiniteSets, TLC

VARIABLES
    flags,      \* the capability flags handed to registerKeys
    pc,         \* the position inside registerKeys
    table,      \* d.table
    first,      \* the table an earlier run of registerKeys ended with
    terminfo,   \* the terminfo accessor: the capabilities it has, with their bytes
    record,     \* the console key record handed to parseWin32InputKeyEvent
    event,      \* the Event it returned
    wire,       \* the fields the mouse report in buf was encoded from
    buf,        \* the input buffer handed to a mouse parser
    mouseEvent, \* the Event it returned
    reply,      \* the prefix and components colorStr was joined from
    colorStr,   \* the string handed to xParseColor
    colorOut,   \* the color it returned
    codes,      \* the two button codes handed to parseMouseButton
    buttons,    \* what it returned for each
    input,      \* the input buffer handed to the decoder
    decoded     \* the event it returned and the bytes it consumed

-----------------------------------------------------------------------------
(* Bytes and strings *)

\* The C0 names of package ansi, then SP, the printable characters and DEL.
CharNames ==
    <<"NUL", "SOH", "STX", "ETX", "EOT", "ENQ", "ACK", "BEL", "BS", "HT", "LF",
      "VT", "FF", "CR", "SO", "SI", "DLE", "DC1", "DC2", "DC3", "DC4", "NAK",
      "SYN", "ETB", "CAN", "EM", "SUB", "ESC", "FS", "GS", "RS", "US", "SP",
      "!", "\"", "#", "$", "%", "&", "'", "(", ")", "*", "+", ",", "-", ".", "/", "0",
      "1", "2", "3", "4", "5", "6", "7", "8", "9", ":", ";", "<", "=", ">", "?", "@",
      "A", "B", "C", "D", "E", "F", "G", "H", "I", "J", "K", "L", "M", "N", "O", "P",
      "Q", "R", "S", "T", "U", "V", "W", "X", "Y", "Z", "[", "\\", "]", "^", "_", "GRAVE",
      "a", "b", "c", "d", "e", "f", "g", "h", "i", "j", "k", "l", "m", "n", "o", "p",
      "q", "r", "s", "t", "u", "v", "w", "x", "y", "z", "{", "|", "}", "~",
      "DEL">>

\* The byte value of a character: its index in CharNames, counted from 0.
Ord == [c \in {CharNames[i] : i \in 1..Len(CharNames)} |->
          (CHOOSE i \in 1..Len(CharNames) : CharNames[i] = c) - 1]

\* A Go string literal, written character by character, as its bytes.
Str(cs) == [i \in 1..Len(cs) |-> Ord[cs[i]]]

\* strconv.Itoa for n >= 0: the decimal digits, most significant first.
RECURSIVE Itoa(_)
Itoa(n) ==
    IF n < 10 THEN <<Ord["0"] + n>>
    ELSE Itoa(n \div 10) \o <<Ord["0"] + (n % 10)>>

-----------------------------------------------------------------------------
(* Modifiers and key events *)

\* The Mod bits.  registerKeys lists the fifteen combinations in the order of
\* their values 1..15 and writes int(m)+1 on the wire, which fixes the bits.
Shift == 1
Alt   == 2
Ctrl  == 4
Meta  == 8

\* m & bit != 0
HasMod(m, bit) == (m \div bit) % 2 = 1

\* a | b on Mod values
Or(a, b) ==
      (IF HasMod(a, Shift) \/ HasMod(b, Shift) THEN Shift ELSE 0)
    + (IF HasMod(a, Alt) \/ HasMod(b, Alt) THEN Alt ELSE 0)
    + (IF HasMod(a, Ctrl) \/ HasMod(b, Ctrl) THEN Ctrl ELSE 0)
    + (IF HasMod(a, Meta) \/ HasMod(b, Meta) THEN Meta ELSE 0)

\* The zero KeySym.
KeyNone == "KeyNone"

\* KeyDownEvent{Sym: sym, Rune: rune, Mod: mod}; IsRepeat is left at its zero
\* value.
Key(sym, rune, mod) == [Sym |-> sym, Rune |-> rune, Mod |-> mod, IsRepeat |-> FALSE]

-----------------------------------------------------------------------------
(* Capability flags *)

\* The flag bits registerKeys tests; a flags value is the set of bits set in it.
FlagNames ==
    {"FlagCtrlAt", "FlagSpace", "FlagCtrlI", "FlagCtrlM", "FlagCtrlOpenBracket",
     "FlagBackspace", "FlagFind", "FlagSelect", "FlagNoXTerm", "FlagNoTerminfo"}

\* flags&f != 0
Has(fl, f) == f \in fl

nul(fl) ==
    IF Has(fl, "FlagCtrlAt") THEN Key(KeyNone, Ord["@"], Ctrl)
    ELSE IF Has(fl, "FlagSpace") THEN Key(KeyNone, Ord["SP"], Ctrl)
    ELSE Key("KeySpace", 0, Ctrl)

tab(fl) ==
    IF Has(fl, "FlagCtrlI") THEN Key(KeyNone, Ord["i"], Ctrl) ELSE Key("KeyTab", 0, 0)

enter(fl) ==
    IF Has(fl, "FlagCtrlM") THEN Key(KeyNone, Ord["m"], Ctrl) ELSE Key("KeyEnter", 0, 0)

esc(fl) ==
    IF Has(fl, "FlagCtrlOpenBracket") THEN Key(KeyNone, Ord["["], Ctrl)
    ELSE Key("KeyEscape", 0, 0)

sp(fl) ==
    IF Has(fl, "FlagSpace") THEN Key(KeyNone, Ord["SP"], 0)
    ELSE Key("KeySpace", Ord["SP"], 0)

del(fl) ==
    IF Has(fl, "FlagBackspace") THEN Key("KeyDelete", 0, 0) ELSE Key("KeyBackspace", 0, 0)

find(fl) ==
    IF Has(fl, "FlagFind") THEN Key("KeyFind", 0, 0) ELSE Key("KeyHome", 0, 0)

sel(fl) ==
    IF Has(fl, "FlagSelect") THEN Key("KeySelect", 0, 0) ELSE Key("KeyEnd", 0, 0)

-----------------------------------------------------------------------------
(* registerKeys: the literal tables *)

tableLiteral(fl) ==
    Str(<<"NUL">>) :> nul(fl)
    @@ Str(<<"SOH">>) :> Key(KeyNone, Ord["a"], Ctrl)
    @@ Str(<<"STX">>) :> Key(KeyNone, Ord["b"], Ctrl)
    @@ Str(<<"ETX">>) :> Key(KeyNone, Ord["c"], Ctrl)
    @@ Str(<<"EOT">>) :> Key(KeyNone, Ord["d"], Ctrl)
    @@ Str(<<"ENQ">>) :> Key(KeyNone, Ord["e"], Ctrl)
    @@ Str(<<"ACK">>) :> Key(KeyNone, Ord["f"], Ctrl)
    @@ Str(<<"BEL">>) :> Key(KeyNone, Ord["g"], Ctrl)
    @@ Str(<<"BS">>) :> Key(KeyNone, Ord["h"], Ctrl)
    @@ Str(<<"HT">>) :> tab(fl)
    @@ Str(<<"LF">>) :> Key(KeyNone, Ord["j"], Ctrl)
    @@ Str(<<"VT">>) :> Key(KeyNone, Ord["k"], Ctrl)
    @@ Str(<<"FF">>) :> Key(KeyNone, Ord["l"], Ctrl)
    @@ Str(<<"CR">>) :> enter(fl)
    @@ Str(<<"SO">>) :> Key(KeyNone, Ord["n"], Ctrl)
    @@ Str(<<"SI">>) :> Key(KeyNone, Ord["o"], Ctrl)
    @@ Str(<<"DLE">>) :> Key(KeyNone, Ord["p"], Ctrl)
    @@ Str(<<"DC1">>) :> Key(KeyNone, Ord["q"], Ctrl)
    @@ Str(<<"DC2">>) :> Key(KeyNone, Ord["r"], Ctrl)
    @@ Str(<<"DC3">>) :> Key(KeyNone, Ord["s"], Ctrl)
    @@ Str(<<"DC4">>) :> Key(KeyNone, Ord["t"], Ctrl)
    @@ Str(<<"NAK">>) :> Key(KeyNone, Ord["u"], Ctrl)
    @@ Str(<<"SYN">>) :> Key(KeyNone, Ord["v"], Ctrl)
    @@ Str(<<"ETB">>) :> Key(KeyNone, Ord["w"], Ctrl)
    @@ Str(<<"CAN">>) :> Key(KeyNone, Ord["x"], Ctrl)
    @@ Str(<<"EM">>) :> Key(KeyNone, Ord["y"], Ctrl)
    @@ Str(<<"SUB">>) :> Key(KeyNone, Ord["z"], Ctrl)
    @@ Str(<<"ESC">>) :> esc(fl)
    @@ Str(<<"FS">>) :> Key(KeyNone, Ord["\\"], Ctrl)
    @@ Str(<<"GS">>) :> Key(KeyNone, Ord["]"], Ctrl)
    @@ Str(<<"RS">>) :> Key(KeyNone, Ord["^"], Ctrl)
    @@ Str(<<"US">>) :> Key(KeyNone, Ord["_"], Ctrl)
    @@ Str(<<"SP">>) :> sp(fl)
    @@ Str(<<"DEL">>) :> del(fl)
    @@ Str(<<"ESC", "[", "Z">>) :> Key("KeyTab", 0, Shift)
    @@ Str(<<"ESC", "[", "1", "~">>) :> find(fl)
    @@ Str(<<"ESC", "[", "2", "~">>) :> Key("KeyInsert", 0, 0)
    @@ Str(<<"ESC", "[", "3", "~">>) :> Key("KeyDelete", 0, 0)
    @@ Str(<<"ESC", "[", "4", "~">>) :> sel(fl)
    @@ Str(<<"ESC", "[", "5", "~">>) :> Key("KeyPgUp", 0, 0)
    @@ Str(<<"ESC", "[", "6", "~">>) :> Key("KeyPgDown", 0, 0)
    @@ Str(<<"ESC", "[", "7", "~">>) :> Key("KeyHome", 0, 0)
    @@ Str(<<"ESC", "[", "8", "~">>) :> Key("KeyEnd", 0, 0)
    @@ Str(<<"ESC", "[", "A">>) :> Key("KeyUp", 0, 0)
    @@ Str(<<"ESC", "[", "B">>) :> Key("KeyDown", 0, 0)
    @@ Str(<<"ESC", "[", "C">>) :> Key("KeyRight", 0, 0)
    @@ Str(<<"ESC", "[", "D">>) :> Key("KeyLeft", 0, 0)
    @@ Str(<<"ESC", "[", "E">>) :> Key("KeyBegin", 0, 0)
    @@ Str(<<"ESC", "[", "F">>) :> Key("KeyEnd", 0, 0)
    @@ Str(<<"ESC", "[", "H">>) :> Key("KeyHome", 0, 0)
    @@ Str(<<"ESC", "[", "P">>) :> Key("KeyF1", 0, 0)
    @@ Str(<<"ESC", "[", "Q">>) :> Key("KeyF2", 0, 0)
    @@ Str(<<"ESC", "[", "R">>) :> Key("KeyF3", 0, 0)
    @@ Str(<<"ESC", "[", "S">>) :> Key("KeyF4", 0, 0)
    @@ Str(<<"ESC", "O", "A">>) :> Key("KeyUp", 0, 0)
    @@ Str(<<"ESC", "O", "B">>) :> Key("KeyDown", 0, 0)
    @@ Str(<<"ESC", "O", "C">>) :> Key("KeyRight", 0, 0)
    @@ Str(<<"ESC", "O", "D">>) :> Key("KeyLeft", 0, 0)
    @@ Str(<<"ESC", "O", "E">>) :> Key("KeyBegin", 0, 0)
    @@ Str(<<"ESC", "O", "F">>) :> Key("KeyEnd", 0, 0)
    @@ Str(<<"ESC", "O", "H">>) :> Key("KeyHome", 0, 0)
    @@ Str(<<"ESC", "O", "P">>) :> Key("KeyF1", 0, 0)
    @@ Str(<<"ESC", "O", "Q">>) :> Key("KeyF2", 0, 0)
    @@ Str(<<"ESC", "O", "R">>) :> Key("KeyF3", 0, 0)
    @@ Str(<<"ESC", "O", "S">>) :> Key("KeyF4", 0, 0)
    @@ Str(<<"ESC", "O", "M">>) :> Key("KeyKpEnter", 0, 0)
    @@ Str(<<"ESC", "O", "X">>) :> Key("KeyKpEqual", 0, 0)
    @@ Str(<<"ESC", "O", "j">>) :> Key("KeyKpMul", 0, 0)
    @@ Str(<<"ESC", "O", "k">>) :> Key("KeyKpPlus", 0, 0)
    @@ Str(<<"ESC", "O", "l">>) :> Key("KeyKpComma", 0, 0)
    @@ Str(<<"ESC", "O", "m">>) :> Key("KeyKpMinus", 0, 0)
    @@ Str(<<"ESC", "O", "n">>) :> Key("KeyKpPeriod", 0, 0)
    @@ Str(<<"ESC", "O", "o">>) :> Key("KeyKpDiv", 0, 0)
    @@ Str(<<"ESC", "O", "p">>) :> Key("KeyKp0", 0, 0)
    @@ Str(<<"ESC", "O", "q">>) :> Key("KeyKp1", 0, 0)
    @@ Str(<<"ESC", "O", "r">>) :> Key("KeyKp2", 0, 0)
    @@ Str(<<"ESC", "O", "s">>) :> Key("KeyKp3", 0, 0)
    @@ Str(<<"ESC", "O", "t">>) :> Key("KeyKp4", 0, 0)
    @@ Str(<<"ESC", "O", "u">>) :> Key("KeyKp5", 0, 0)
    @@ Str(<<"ESC", "O", "v">>) :> Key("KeyKp6", 0, 0)
    @@ Str(<<"ESC", "O", "w">>) :> Key("KeyKp7", 0, 0)
    @@ Str(<<"ESC", "O", "x">>) :> Key("KeyKp8", 0, 0)
    @@ Str(<<"ESC", "O", "y">>) :> Key("KeyKp9", 0, 0)
    @@ Str(<<"ESC", "[", "1", "1", "~">>) :> Key("KeyF1", 0, 0)
    @@ Str(<<"ESC", "[", "1", "2", "~">>) :> Key("KeyF2", 0, 0)
    @@ Str(<<"ESC", "[", "1", "3", "~">>) :> Key("KeyF3", 0, 0)
    @@ Str(<<"ESC", "[", "1", "4", "~">>) :> Key("KeyF4", 0, 0)
    @@ Str(<<"ESC", "[", "1", "5", "~">>) :> Key("KeyF5", 0, 0)
    @@ Str(<<"ESC", "[", "1", "7", "~">>) :> Key("KeyF6", 0, 0)
    @@ Str(<<"ESC", "[", "1", "8", "~">>) :> Key("KeyF7", 0, 0)
    @@ Str(<<"ESC", "[", "1", "9", "~">>) :> Key("KeyF8", 0, 0)
    @@ Str(<<"ESC", "[", "2", "0", "~">>) :> Key("KeyF9", 0, 0)
    @@ Str(<<"ESC", "[", "2", "1", "~">>) :> Key("KeyF10", 0, 0)
    @@ Str(<<"ESC", "[", "2", "3", "~">>) :> Key("KeyF11", 0, 0)
    @@ Str(<<"ESC", "[", "2", "4", "~">>) :> Key("KeyF12", 0, 0)
    @@ Str(<<"ESC", "[", "2", "5", "~">>) :> Key("KeyF13", 0, 0)
    @@ Str(<<"ESC", "[", "2", "6", "~">>) :> Key("KeyF14", 0, 0)
    @@ Str(<<"ESC", "[", "2", "8", "~">>) :> Key("KeyF15", 0, 0)
    @@ Str(<<"ESC", "[", "2", "9", "~">>) :> Key("KeyF16", 0, 0)
    @@ Str(<<"ESC", "[", "3", "1", "~">>) :> Key("KeyF17", 0, 0)
    @@ Str(<<"ESC", "[", "3", "2", "~">>) :> Key("KeyF18", 0, 0)
    @@ Str(<<"ESC", "[", "3", "3", "~">>) :> Key("KeyF19", 0, 0)
    @@ Str(<<"ESC", "[", "3", "4", "~">>) :> Key("KeyF20", 0, 0)

csiFuncKeys ==
    Str(<<"A">>) :> Key("KeyUp", 0, 0)
    @@ Str(<<"B">>) :> Key("KeyDown", 0, 0)
    @@ Str(<<"C">>) :> Key("KeyRight", 0, 0)
    @@ Str(<<"D">>) :> Key("KeyLeft", 0, 0)
    @@ Str(<<"E">>) :> Key("KeyBegin", 0, 0)
    @@ Str(<<"F">>) :> Key("KeyEnd", 0, 0)
    @@ Str(<<"H">>) :> Key("KeyHome", 0, 0)
    @@ Str(<<"P">>) :> Key("KeyF1", 0, 0)
    @@ Str(<<"Q">>) :> Key("KeyF2", 0, 0)
    @@ Str(<<"R">>) :> Key("KeyF3", 0, 0)
    @@ Str(<<"S">>) :> Key("KeyF4", 0, 0)

ss3FuncKeys ==
    Str(<<"M">>) :> Key("KeyKpEnter", 0, 0)
    @@ Str(<<"X">>) :> Key("KeyKpEqual", 0, 0)
    @@ Str(<<"j">>) :> Key("KeyKpMul", 0, 0)
    @@ Str(<<"k">>) :> Key("KeyKpPlus", 0, 0)
    @@ Str(<<"l">>) :> Key("KeyKpComma", 0, 0)
    @@ Str(<<"m">>) :> Key("KeyKpMinus", 0, 0)
    @@ Str(<<"n">>) :> Key("KeyKpPeriod", 0, 0)
    @@ Str(<<"o">>) :> Key("KeyKpDiv", 0, 0)
    @@ Str(<<"p">>) :> Key("KeyKp0", 0, 0)
    @@ Str(<<"q">>) :> Key("KeyKp1", 0, 0)
    @@ Str(<<"r">>) :> Key("KeyKp2", 0, 0)
    @@ Str(<<"s">>) :> Key("KeyKp3", 0, 0)
    @@ Str(<<"t">>) :> Key("KeyKp4", 0, 0)
    @@ Str(<<"u">>) :> Key("KeyKp5", 0, 0)
    @@ Str(<<"v">>) :> Key("KeyKp6", 0, 0)
    @@ Str(<<"w">>) :> Key("KeyKp7", 0, 0)
    @@ Str(<<"x">>) :> Key("KeyKp8", 0, 0)
    @@ Str(<<"y">>) :> Key("KeyKp9", 0, 0)

csiTildeKeys(fl) ==
    Str(<<"1">>) :> find(fl)
    @@ Str(<<"2">>) :> Key("KeyInsert", 0, 0)
    @@ Str(<<"3">>) :> Key("KeyDelete", 0, 0)
    @@ Str(<<"4">>) :> sel(fl)
    @@ Str(<<"5">>) :> Key("KeyPgUp", 0, 0)
    @@ Str(<<"6">>) :> Key("KeyPgDown", 0, 0)
    @@ Str(<<"7">>) :> Key("KeyHome", 0, 0)
    @@ Str(<<"8">>) :> Key("KeyEnd", 0, 0)
    @@ Str(<<"1", "1">>) :> Key("KeyF1", 0, 0)
    @@ Str(<<"1", "2">>) :> Key("KeyF2", 0, 0)
    @@ Str(<<"1", "3">>) :> Key("KeyF3", 0, 0)
    @@ Str(<<"1", "4">>) :> Key("KeyF4", 0, 0)
    @@ Str(<<"1", "5">>) :> Key("KeyF5", 0, 0)
    @@ Str(<<"1", "7">>) :> Key("KeyF6", 0, 0)
    @@ Str(<<"1", "8">>) :> Key("KeyF7", 0, 0)
    @@ Str(<<"1", "9">>) :> Key("KeyF8", 0, 0)
    @@ Str(<<"2", "0">>) :> Key("KeyF9", 0, 0)
    @@ Str(<<"2", "1">>) :> Key("KeyF10", 0, 0)
    @@ Str(<<"2", "3">>) :> Key("KeyF11", 0, 0)
    @@ Str(<<"2", "4">>) :> Key("KeyF12", 0, 0)
    @@ Str(<<"2", "5">>) :> Key("KeyF13", 0, 0)
    @@ Str(<<"2", "6">>) :> Key("KeyF14", 0, 0)
    @@ Str(<<"2", "8">>) :> Key("KeyF15", 0, 0)
    @@ Str(<<"2", "9">>) :> Key("KeyF16", 0, 0)
    @@ Str(<<"3", "1">>) :> Key("KeyF17", 0, 0)
    @@ Str(<<"3", "2">>) :> Key("KeyF18", 0, 0)
    @@ Str(<<"3", "3">>) :> Key("KeyF19", 0, 0)
    @@ Str(<<"3", "4">>) :> Key("KeyF20", 0, 0)

urxvtArrowKeys ==
    Str(<<"ESC", "[", "a">>) :> Key("KeyUp", 0, Shift)
    @@ Str(<<"ESC", "[", "b">>) :> Key("KeyDown", 0, Shift)
    @@ Str(<<"ESC", "[", "c">>) :> Key("KeyRight", 0, Shift)
    @@ Str(<<"ESC", "[", "d">>) :> Key("KeyLeft", 0, Shift)
    @@ Str(<<"ESC", "O", "a">>) :> Key("KeyUp", 0, Ctrl)
    @@ Str(<<"ESC", "O", "b">>) :> Key("KeyDown", 0, Ctrl)
    @@ Str(<<"ESC", "O", "c">>) :> Key("KeyRight", 0, Ctrl)
    @@ Str(<<"ESC", "O", "d">>) :> Key("KeyLeft", 0, Ctrl)

urxvtFKeys ==
    Str(<<"ESC", "[", "2", "3", "$">>) :> Key("KeyF11", 0, Shift)
    @@ Str(<<"ESC", "[", "2", "4", "$">>) :> Key("KeyF12", 0, Shift)
    @@ Str(<<"ESC", "[", "2", "5", "$">>) :> Key("KeyF13", 0, Shift)
    @@ Str(<<"ESC", "[", "2", "6", "$">>) :> Key("KeyF14", 0, Shift)
    @@ Str(<<"ESC", "[", "2", "8", "$">>) :> Key("KeyF15", 0, Shift)
    @@ Str(<<"ESC", "[", "2", "9", "$">>) :> Key("KeyF16", 0, Shift)
    @@ Str(<<"ESC", "[", "3", "1", "$">>) :> Key("KeyF17", 0, Shift)
    @@ Str(<<"ESC", "[", "3", "2", "$">>) :> Key("KeyF18", 0, Shift)
    @@ Str(<<"ESC", "[", "3", "3", "$">>) :> Key("KeyF19", 0, Shift)
    @@ Str(<<"ESC", "[", "3", "4", "$">>) :> Key("KeyF20", 0, Shift)
    @@ Str(<<"ESC", "[", "1", "1", "^">>) :> Key("KeyF1", 0, Ctrl)
    @@ Str(<<"ESC", "[", "1", "2", "^">>) :> Key("KeyF2", 0, Ctrl)
    @@ Str(<<"ESC", "[", "1", "3", "^">>) :> Key("KeyF3", 0, Ctrl)
    @@ Str(<<"ESC", "[", "1", "4", "^">>) :> Key("KeyF4", 0, Ctrl)
    @@ Str(<<"ESC", "[", "1", "5", "^">>) :> Key("KeyF5", 0, Ctrl)
    @@ Str(<<"ESC", "[", "1", "7", "^">>) :> Key("KeyF6", 0, Ctrl)
    @@ Str(<<"ESC", "[", "1", "8", "^">>) :> Key("KeyF7", 0, Ctrl)
    @@ Str(<<"ESC", "[", "1", "9", "^">>) :> Key("KeyF8", 0, Ctrl)
    @@ Str(<<"ESC", "[", "2", "0", "^">>) :> Key("KeyF9", 0, Ctrl)
    @@ Str(<<"ESC", "[", "2", "1", "^">>) :> Key("KeyF10", 0, Ctrl)
    @@ Str(<<"ESC", "[", "2", "3", "^">>) :> Key("KeyF11", 0, Ctrl)
    @@ Str(<<"ESC", "[", "2", "4", "^">>) :> Key("KeyF12", 0, Ctrl)
    @@ Str(<<"ESC", "[", "2", "5", "^">>) :> Key("KeyF13", 0, Ctrl)
    @@ Str(<<"ESC", "[", "2", "6", "^">>) :> Key("KeyF14", 0, Ctrl)
    @@ Str(<<"ESC", "[", "2", "8", "^">>) :> Key("KeyF15", 0, Ctrl)
    @@ Str(<<"ESC", "[", "2", "9", "^">>) :> Key("KeyF16", 0, Ctrl)
    @@ Str(<<"ESC", "[", "3", "1", "^">>) :> Key("KeyF17", 0, Ctrl)
    @@ Str(<<"ESC", "[", "3", "2", "^">>) :> Key("KeyF18", 0, Ctrl)
    @@ Str(<<"ESC", "[", "3", "3", "^">>) :> Key("KeyF19", 0, Ctrl)
    @@ Str(<<"ESC", "[", "3", "4", "^">>) :> Key("KeyF20", 0, Ctrl)
    @@ Str(<<"ESC", "[", "2", "3", "@">>) :> Key("KeyF11", 0, Or(Shift, Ctrl))
    @@ Str(<<"ESC", "[", "2", "4", "@">>) :> Key("KeyF12", 0, Or(Shift, Ctrl))
    @@ Str(<<"ESC", "[", "2", "5", "@">>) :> Key("KeyF13", 0, Or(Shift, Ctrl))
    @@ Str(<<"ESC", "[", "2", "6", "@">>) :> Key("KeyF14", 0, Or(Shift, Ctrl))
    @@ Str(<<"ESC", "[", "2", "8", "@">>) :> Key("KeyF15", 0, Or(Shift, Ctrl))
    @@ Str(<<"ESC", "[", "2", "9", "@">>) :> Key("KeyF16", 0, Or(Shift, Ctrl))
    @@ Str(<<"ESC", "[", "3", "1", "@">>) :> Key("KeyF17", 0, Or(Shift, Ctrl))
    @@ Str(<<"ESC", "[", "3", "2", "@">>) :> Key("KeyF18", 0, Or(Shift, Ctrl))
    @@ Str(<<"ESC", "[", "3", "3", "@">>) :> Key("KeyF19", 0, Or(Shift, Ctrl))
    @@ Str(<<"ESC", "[", "3", "4", "@">>) :> Key("KeyF20", 0, Or(Shift, Ctrl))

\* CSI 27 ; <modifier> ; <code> ~ keys defined in XTerm modifyOtherKeys
modifyOtherKeys ==
    Ord["BS"] :> Key("KeyBackspace", 0, 0)
    @@ Ord["HT"] :> Key("KeyTab", 0, 0)
    @@ Ord["CR"] :> Key("KeyEnter", 0, 0)
    @@ Ord["ESC"] :> Key("KeyEscape", 0, 0)
    @@ Ord["DEL"] :> Key("KeyBackspace", 0, 0)

\* XTerm modifiers, in the order of the slice.
modifiers ==
    << Shift,
       Alt,
       Or(Shift, Alt),
       Ctrl,
       Or(Shift, Ctrl),
       Or(Alt, Ctrl),
       Or(Or(Shift, Alt), Ctrl),
       Meta,
       Or(Meta, Shift),
       Or(Meta, Alt),
       Or(Or(Meta, Shift), Alt),
       Or(Meta, Ctrl),
       Or(Or(Meta, Shift), Ctrl),
       Or(Or(Meta, Alt), Ctrl),
       Or(Or(Or(Meta, Shift), Alt), Ctrl) >>

-----------------------------------------------------------------------------
(* registerKeys: the phases *)

\* key := v; key.Mod = m
WithMod(v, m) == [v EXCEPT !.Mod = m]

\* The entries written by a loop `for k, v := range keys` whose body assigns
\* d.table[pre + k + suf] = v with v.Mod = m: the entry at pre + k + suf is
\* keys[k] with Mod m.  Different k give different sequences, so the order
\* in which the range produces them is immaterial.
\* A loop body that leaves pre out of the sequence it assigns
RangeWritesBare(keys, pre, suf, m) ==
    [s \in {k \o suf : k \in DOMAIN keys} |->
        WithMod(keys[SubSeq(s, 1, Len(s) - Len(suf))], m)]

RangeWrites(keys, pre, suf, m) ==
    [s \in {pre \o k \o suf : k \in DOMAIN keys} |->
        WithMod(keys[SubSeq(s, Len(pre) + 1, Len(s) - Len(suf))], m)]

\* modifyOtherKeys with every code k as the string strconv.Itoa(k).
otherKeysByCode ==
    [c \in {Itoa(k) : k \in DOMAIN modifyOtherKeys} |->
        modifyOtherKeys[CHOOSE k \in DOMAIN modifyOtherKeys : Itoa(k) = c]]

\* One turn of `for _, m := range modifiers` on the table t; a later loop of
\* the turn writes over an earlier one.
xtermWrites(tilde, m, t) ==
    LET xtermMod == Itoa(m + 1)
        \* CSI 1 ; <modifier> <func>
        csi   == RangeWrites(csiFuncKeys, Str(<<"ESC", "[", "1", ";">>) \o xtermMod, << >>, m)
        \* SS3 <modifier> <func>
        ss3   == RangeWrites(ss3FuncKeys, Str(<<"ESC", "O">>) \o xtermMod, << >>, m)
        \* CSI <number> ; <modifier> ~
        tld   == RangeWrites(tilde, Str(<<"ESC", "[">>),
                             Str(<<";">>) \o xtermMod \o Str(<<"~">>), m)
        \* CSI 27 ; <modifier> ; <code> ~
        other == RangeWrites(otherKeysByCode,
                             Str(<<"ESC", "[", "2", "7", ";">>) \o xtermMod \o Str(<<";">>),
                             Str(<<"~">>), m)
    IN  other @@ tld @@ ss3 @@ csi @@ t

\* `for _, m := range modifiers`, from its i-th element on.
RECURSIVE xtermLoop(_, _, _)
xtermLoop(tilde, i, t) ==
    IF i > Len(modifiers) THEN t
    ELSE xtermLoop(tilde, i + 1, xtermWrites(tilde, modifiers[i], t))

\* The XTerm loops whatever the flags
registerXTermAlways(fl, t) == xtermLoop(csiTildeKeys(fl), 1, t)

\* if flags&FlagNoXTerm == 0 { ... }
registerXTerm(fl, t) ==
    IF ~Has(fl, "FlagNoXTerm") THEN xtermLoop(csiTildeKeys(fl), 1, t) ELSE t

\* URxvt modifier CSI ~ keys: the three writes of every turn go to different
\* sequences.
urxvtTildeWrites(tilde, t) ==
    LET shift == RangeWrites(tilde, Str(<<"ESC", "[">>), Str(<<"$">>), Shift)
        ctrl  == RangeWrites(tilde, Str(<<"ESC", "[">>), Str(<<"^">>), Ctrl)
        both  == RangeWrites(tilde, Str(<<"ESC", "[">>), Str(<<"@">>), Or(Shift, Ctrl))
    IN  both @@ ctrl @@ shift @@ t

\* URxvt keys: the arrow keys, the CSI ~ keys, the F keys.
registerURxvt(fl, t) ==
    urxvtFKeys @@ urxvtTildeWrites(csiTildeKeys(fl), urxvtArrowKeys @@ t)

\* A loop body that assigns v unchanged
AltForgotten(v) == v

\* v.Mod |= Alt
AltOf(v) == [v EXCEPT !.Mod = Or(v.Mod, Alt)]

\* "\x1b" + k
EscPrefixed(k) == Str(<<"ESC">>) \o k

\* `for k, v := range d.table` while the body adds entries to d.table.  Every
\* entry present when the loop starts is produced once.  An entry the body
\* creates may be produced later in the same loop or be skipped: revisit is
\* the set of created entries this run of the loop produces, and visit the
\* entries it produces in the current stretch.  No sequence the earlier
\* phases store is ESC followed by another one they store, so the body never
\* writes an entry the loop has yet to read, and the order within a stretch
\* is immaterial.
RECURSIVE rangeAlt(_, _, _)
rangeAlt(t, visit, revisit) ==
    LET writes  == [s \in {EscPrefixed(k) : k \in visit} |-> AltOf(t[Tail(s)])]
        created == DOMAIN writes \ DOMAIN t
        again   == created \cap revisit
        t1      == writes @@ t
    IN  IF again = {} THEN t1 ELSE rangeAlt(t1, again, revisit)

\* The created entries a run of the loop may be seen to produce: Alt variants
\* of the first MaxRevisit single-byte keys.
MaxRevisit == 1

Revisitable == {EscPrefixed(<<b>>) : b \in 0..(MaxRevisit - 1)}

\* A registerKeys without the Alt loop
registerAltSkipped(t, revisit) == t

registerAlt(t, revisit) == rangeAlt(t, DOMAIN t, revisit)

\* registerTerminfoKeys is outside the files at hand.  It follows phase 6 of
\* the specification: each capability the accessor has is stored under the
\* bytes it returns, over whatever the table held there.
terminfoKeys ==
    "khome" :> Key("KeyHome", 0, 0)
    @@ "kf1" :> Key("KeyF1", 0, 0)
    @@ "kf2" :> Key("KeyF2", 0, 0)

registerTerminfoKeys(ti, t) ==
    LET caps == DOMAIN ti \cap DOMAIN terminfoKeys
        overlay == [s \in {ti[c] : c \in caps} |->
                        terminfoKeys[CHOOSE c \in caps : ti[c] = s]]
    IN  overlay @@ t


-----------------------------------------------------------------------------
(* The Windows console key translator *)

vkKeyEvent ==
    "VK_RETURN" :> Key("KeyEnter", 0, 0)
    @@ "VK_BACK" :> Key("KeyBackspace", 0, 0)
    @@ "VK_TAB" :> Key("KeyTab", 0, 0)
    @@ "VK_ESCAPE" :> Key("KeyEscape", 0, 0)
    @@ "VK_SPACE" :> Key("KeySpace", Ord["SP"], 0)
    @@ "VK_UP" :> Key("KeyUp", 0, 0)
    @@ "VK_DOWN" :> Key("KeyDown", 0, 0)
    @@ "VK_RIGHT" :> Key("KeyRight", 0, 0)
    @@ "VK_LEFT" :> Key("KeyLeft", 0, 0)
    @@ "VK_HOME" :> Key("KeyHome", 0, 0)
    @@ "VK_END" :> Key("KeyEnd", 0, 0)
    @@ "VK_PRIOR" :> Key("KeyPgUp", 0, 0)
    @@ "VK_NEXT" :> Key("KeyPgDown", 0, 0)
    @@ "VK_DELETE" :> Key("KeyDelete", 0, 0)
    @@ "VK_SELECT" :> Key("KeySelect", 0, 0)
    @@ "VK_SNAPSHOT" :> Key("KeyPrintScreen", 0, 0)
    @@ "VK_INSERT" :> Key("KeyInsert", 0, 0)
    @@ "VK_LWIN" :> Key("KeyLeftSuper", 0, 0)
    @@ "VK_RWIN" :> Key("KeyRightSuper", 0, 0)
    @@ "VK_APPS" :> Key("KeyMenu", 0, 0)
    @@ "VK_NUMPAD0" :> Key("KeyKp0", 0, 0)
    @@ "VK_NUMPAD1" :> Key("KeyKp1", 0, 0)
    @@ "VK_NUMPAD2" :> Key("KeyKp2", 0, 0)
    @@ "VK_NUMPAD3" :> Key("KeyKp3", 0, 0)
    @@ "VK_NUMPAD4" :> Key("KeyKp4", 0, 0)
    @@ "VK_NUMPAD5" :> Key("KeyKp5", 0, 0)
    @@ "VK_NUMPAD6" :> Key("KeyKp6", 0, 0)
    @@ "VK_NUMPAD7" :> Key("KeyKp7", 0, 0)
    @@ "VK_NUMPAD8" :> Key("KeyKp8", 0, 0)
    @@ "VK_NUMPAD9" :> Key("KeyKp9", 0, 0)
    @@ "VK_MULTIPLY" :> Key("KeyKpMul", 0, 0)
    @@ "VK_ADD" :> Key("KeyKpPlus", 0, 0)
    @@ "VK_SEPARATOR" :> Key("KeyKpComma", 0, 0)
    @@ "VK_SUBTRACT" :> Key("KeyKpMinus", 0, 0)
    @@ "VK_DECIMAL" :> Key("KeyKpPeriod", 0, 0)
    @@ "VK_DIVIDE" :> Key("KeyKpDiv", 0, 0)
    @@ "VK_F1" :> Key("KeyF1", 0, 0)
    @@ "VK_F2" :> Key("KeyF2", 0, 0)
    @@ "VK_F3" :> Key("KeyF3", 0, 0)
    @@ "VK_F4" :> Key("KeyF4", 0, 0)
    @@ "VK_F5" :> Key("KeyF5", 0, 0)
    @@ "VK_F6" :> Key("KeyF6", 0, 0)
    @@ "VK_F7" :> Key("KeyF7", 0, 0)
    @@ "VK_F8" :> Key("KeyF8", 0, 0)
    @@ "VK_F9" :> Key("KeyF9", 0, 0)
    @@ "VK_F10" :> Key("KeyF10", 0, 0)
    @@ "VK_F11" :> Key("KeyF11", 0, 0)
    @@ "VK_F12" :> Key("KeyF12", 0, 0)
    @@ "VK_F13" :> Key("KeyF13", 0, 0)
    @@ "VK_F14" :> Key("KeyF14", 0, 0)
    @@ "VK_F15" :> Key("KeyF15", 0, 0)
    @@ "VK_F16" :> Key("KeyF16", 0, 0)
    @@ "VK_F17" :> Key("KeyF17", 0, 0)
    @@ "VK_F18" :> Key("KeyF18", 0, 0)
    @@ "VK_F19" :> Key("KeyF19", 0, 0)
    @@ "VK_F20" :> Key("KeyF20", 0, 0)
    @@ "VK_F21" :> Key("KeyF21", 0, 0)
    @@ "VK_F22" :> Key("KeyF22", 0, 0)
    @@ "VK_F23" :> Key("KeyF23", 0, 0)
    @@ "VK_F24" :> Key("KeyF24", 0, 0)
    @@ "VK_NUMLOCK" :> Key("KeyNumLock", 0, 0)
    @@ "VK_SCROLL" :> Key("KeyScrollLock", 0, 0)
    @@ "VK_LSHIFT" :> Key("KeyLeftShift", 0, 0)
    @@ "VK_RSHIFT" :> Key("KeyRightShift", 0, 0)
    @@ "VK_LCONTROL" :> Key("KeyLeftCtrl", 0, 0)
    @@ "VK_RCONTROL" :> Key("KeyRightCtrl", 0, 0)
    @@ "VK_LMENU" :> Key("KeyLeftAlt", 0, 0)
    @@ "VK_RMENU" :> Key("KeyRightAlt", 0, 0)
    @@ "VK_OEM_4" :> Key(KeyNone, Ord["["], 0)

\* The first switch of vkCtrlRune: the rune r and the rune it sets.
ctrlRunes ==
    64 :> Ord["@"]
    @@ 1 :> Ord["a"]
    @@ 2 :> Ord["b"]
    @@ 3 :> Ord["c"]
    @@ 4 :> Ord["d"]
    @@ 5 :> Ord["e"]
    @@ 6 :> Ord["f"]
    @@ 7 :> Ord["g"]
    @@ 8 :> Ord["h"]
    @@ 9 :> Ord["i"]
    @@ 10 :> Ord["j"]
    @@ 11 :> Ord["k"]
    @@ 12 :> Ord["l"]
    @@ 13 :> Ord["m"]
    @@ 14 :> Ord["n"]
    @@ 15 :> Ord["o"]
    @@ 16 :> Ord["p"]
    @@ 17 :> Ord["q"]
    @@ 18 :> Ord["r"]
    @@ 19 :> Ord["s"]
    @@ 20 :> Ord["t"]
    @@ 21 :> Ord["u"]
    @@ 22 :> Ord["v"]
    @@ 23 :> Ord["w"]
    @@ 24 :> Ord["x"]
    @@ 25 :> Ord["y"]
    @@ 26 :> Ord["z"]
    @@ 27 :> Ord["]"]
    @@ 28 :> Ord["\\"]
    @@ 31 :> Ord["_"]

\* The control-key state bits of package coninput
ControlKeyStates ==
    {"RIGHT_ALT_PRESSED", "LEFT_ALT_PRESSED", "RIGHT_CTRL_PRESSED", "LEFT_CTRL_PRESSED",
     "SHIFT_PRESSED", "NUMLOCK_ON", "SCROLLLOCK_ON", "CAPSLOCK_ON", "ENHANCED_KEY"}

\* A test that asks for every bit of state
ContainsEvery(cks, state) == state \subseteq cks

\* cks.Contains(state): cks and state, as sets of bits, have a bit in common.
Contains(cks, state) == cks \cap state # {}

\* The zero KeyDownEvent
ZeroKey == Key(KeyNone, 0, 0)

vkCtrlRune(k, r, kc) ==
    LET k1 == IF r \in DOMAIN ctrlRunes THEN [k EXCEPT !.Rune = ctrlRunes[r]] ELSE k
    IN  IF kc = "VK_OEM_4" THEN [k1 EXCEPT !.Rune = Ord["["]] ELSE k1

\* The Event values of the translator: nil, a key event, a MultiEvent.
Nil == [type |-> "nil"]
KeyDownEvent(k) == [type |-> "KeyDownEvent", key |-> k]
KeyUpEvent(k) == [type |-> "KeyUpEvent", key |-> k]
\* A batch that loses its last member
MultiEventShort(kevents) ==
    [type |-> "MultiEvent", events |-> SubSeq(kevents, 1, Len(kevents) - 1)]
MultiEvent(kevents) == [type |-> "MultiEvent", events |-> kevents]

\* k.Mod |= bit when cond
OrModIf(cond, k, bit) == IF cond THEN [k EXCEPT !.Mod = Or(k.Mod, bit)] ELSE k

\* var e Event = KeyDownEvent(k); k.IsRepeat = repeatCount > 1;
\* if !keyDown { e = KeyUpEvent(k) }
\* The interface value e holds a copy of k made before IsRepeat is assigned;
\* the release branch copies k after it.
variantOf(k, keyDown, repeatCount) ==
    IF keyDown THEN KeyDownEvent(k)
    ELSE KeyUpEvent([k EXCEPT !.IsRepeat = repeatCount > 1])

parseWin32InputKeyEvent(vkc, r, keyDown, cks, repeatCount) ==
    LET isCtrl == Contains(cks, {"LEFT_CTRL_PRESSED", "RIGHT_CTRL_PRESSED"})
        ok     == vkc \in DOMAIN vkKeyEvent
        k0     == IF ok THEN vkKeyEvent[vkc] ELSE ZeroKey
        k1     == IF ~ok /\ isCtrl THEN vkCtrlRune(k0, r, vkc)
                  ELSE IF ~ok THEN Key(KeyNone, r, 0)
                  ELSE k0
        k2     == OrModIf(isCtrl, k1, Ctrl)
        k3     == OrModIf(Contains(cks, {"LEFT_ALT_PRESSED", "RIGHT_ALT_PRESSED"}), k2, Alt)
        k      == OrModIf(Contains(cks, {"SHIFT_PRESSED"}), k3, Shift)
        e      == variantOf(k, keyDown, repeatCount)
    IN  IF /\ Contains(cks, {"NUMLOCK_ON", "CAPSLOCK_ON", "SCROLLLOCK_ON"})
           /\ k.Rune = 0
           /\ k.Sym = KeyNone
        THEN Nil
        ELSE IF repeatCount <= 1 THEN e
        ELSE MultiEvent([i \in 1..repeatCount |-> e])

\* mod := Mod(params[1][0]) without the offset of 1
parseXTermModifyOtherKeysRaw(params) ==
    LET mod == params[2][1]
        r   == params[3][1]
    IN  IF r \in DOMAIN modifyOtherKeys
        THEN KeyDownEvent(WithMod(modifyOtherKeys[r], mod))
        ELSE KeyDownEvent(Key(KeyNone, r, mod))

\* params is 1-based here: params[2][1] is Go's params[1][0].  The modifier
\* parameter is at least 1, so the unsigned subtraction does not wrap.
parseXTermModifyOtherKeys(params) ==
    LET mod == params[2][1] - 1
        r   == params[3][1]
    IN  IF r \in DOMAIN modifyOtherKeys
        THEN KeyDownEvent(WithMod(modifyOtherKeys[r], mod))
        ELSE KeyDownEvent(Key(KeyNone, r, mod))

-----------------------------------------------------------------------------
(* The mouse decoders *)

MouseButtonNone       == 0
MouseButtonLeft       == 1
MouseButtonMiddle     == 2
MouseButtonRight      == 3
MouseButtonWheelUp    == 4
MouseButtonWheelDown  == 5
MouseButtonWheelLeft  == 6
MouseButtonWheelRight == 7
MouseButtonBackward   == 8
MouseButtonForward    == 9
MouseButton10         == 10
MouseButton11         == 11

\* A wheel test that knows the vertical wheel only
isWheelVertical(b) == b >= MouseButtonWheelUp /\ b <= MouseButtonWheelDown

isWheel(b) == b >= MouseButtonWheelUp /\ b <= MouseButtonWheelRight

\* The mouse bit shifts of parseMouseButton
bitShift  == 4
bitAlt    == 8
bitCtrl   == 16
bitMotion == 32
bitWheel  == 64
bitAdd    == 128
bitsMask  == 3

\* b&bit != 0 for a single bit; b may be any int (two's complement)
BitSet(b, bit) == (b \div bit) % 2 = 1

\* A decomposition without the bitShift test
parseMouseButtonShiftless(b) ==
    LET mod == (IF BitSet(b, bitAlt) THEN Alt ELSE 0)
               + (IF BitSet(b, bitCtrl) THEN Ctrl ELSE 0)
        low == b % (bitsMask + 1)
        btn == IF BitSet(b, bitAdd) THEN MouseButtonBackward + low
               ELSE IF BitSet(b, bitWheel) THEN MouseButtonWheelUp + low
               ELSE IF low = bitsMask THEN MouseButtonNone
               ELSE MouseButtonLeft + low
        isRelease == ~BitSet(b, bitAdd) /\ ~BitSet(b, bitWheel) /\ low = bitsMask
        isMotion  == BitSet(b, bitMotion) /\ ~isWheel(btn)
    IN  [mod |-> mod, btn |-> btn, isRelease |-> isRelease, isMotion |-> isMotion]

parseMouseButton(b) ==
    LET mod == (IF BitSet(b, bitAlt) THEN Alt ELSE 0)
               + (IF BitSet(b, bitCtrl) THEN Ctrl ELSE 0)
               + (IF BitSet(b, bitShift) THEN Shift ELSE 0)
        low == b % (bitsMask + 1)
        btn == IF BitSet(b, bitAdd) THEN MouseButtonBackward + low
               ELSE IF BitSet(b, bitWheel) THEN MouseButtonWheelUp + low
               ELSE IF low = bitsMask THEN MouseButtonNone
               ELSE MouseButtonLeft + low
        isRelease == ~BitSet(b, bitAdd) /\ ~BitSet(b, bitWheel) /\ low = bitsMask
        isMotion  == BitSet(b, bitMotion) /\ ~isWheel(btn)
    IN  [mod |-> mod, btn |-> btn, isRelease |-> isRelease, isMotion |-> isMotion]

\* The mouse events and the carrier of an unrecognized CSI sequence
MouseDownEvent(x, y, btn, mod) == [type |-> "MouseDownEvent", X |-> x, Y |-> y, Button |-> btn, Mod |-> mod]
MouseUpEvent(x, y, btn, mod) == [type |-> "MouseUpEvent", X |-> x, Y |-> y, Button |-> btn, Mod |-> mod]
MouseMoveEvent(x, y, btn, mod) == [type |-> "MouseMoveEvent", X |-> x, Y |-> y, Button |-> btn, Mod |-> mod]
UnknownCsiEvent(b) == [type |-> "UnknownCsiEvent", raw |-> b]

IsDigit(c) == c >= Ord["0"] /\ c <= Ord["9"]

\* strconv.Atoi of a string of decimal digits
RECURSIVE Atoi(_)
Atoi(ds) ==
    IF ds = << >> THEN 0
    ELSE 10 * Atoi(SubSeq(ds, 1, Len(ds) - 1)) + (ds[Len(ds)] - Ord["0"])

\* The index after the longest run of digits of str that starts at i
RECURSIVE DigitsEnd(_, _)
DigitsEnd(str, i) ==
    IF i <= Len(str) /\ IsDigit(str[i]) THEN DigitsEnd(str, i + 1) ELSE i

\* A match of (\d+);(\d+);(\d+)([Mm]) that starts at index i of str: the
\* submatches, or << >> when there is none.
sgrMatchAt(str, i) ==
    LET e1 == DigitsEnd(str, i)
        e2 == DigitsEnd(str, e1 + 1)
        e3 == DigitsEnd(str, e2 + 1)
    IN  IF /\ e1 > i /\ e1 <= Len(str) /\ str[e1] = Ord[";"]
           /\ e2 > e1 + 1 /\ e2 <= Len(str) /\ str[e2] = Ord[";"]
           /\ e3 > e2 + 1 /\ e3 <= Len(str) /\ str[e3] \in {Ord["M"], Ord["m"]}
        THEN << SubSeq(str, i, e3), SubSeq(str, i, e1 - 1), SubSeq(str, e1 + 1, e2 - 1),
                SubSeq(str, e2 + 1, e3 - 1), <<str[e3]>> >>
        ELSE << >>

\* mouseSGRRegex.FindStringSubmatch(str): the leftmost match
mouseSGRRegex(str) ==
    LET starts == {i \in 1..Len(str) : sgrMatchAt(str, i) # << >>}
    IN  IF starts = {} THEN << >>
        ELSE sgrMatchAt(str, CHOOSE i \in starts : \A j \in starts : i <= j)

\* The SGR parser without x-- and y--
parseSGRMouseEventOneBased(b) ==
    LET str      == SubSeq(b, 4, Len(b))
        matches  == mouseSGRRegex(str)
        release  == matches[5] = Str(<<"m">>)
        p        == parseMouseButton(Atoi(matches[2]))
        x        == Atoi(matches[3])
        y        == Atoi(matches[4])
    IN  IF Len(matches) # 5 THEN UnknownCsiEvent(b)
        ELSE IF ~p.isMotion /\ ~isWheel(p.btn) /\ release
             THEN MouseUpEvent(x, y, p.btn, p.mod)
        ELSE IF p.isMotion THEN MouseMoveEvent(x, y, p.btn, p.mod)
        ELSE MouseDownEvent(x, y, p.btn, p.mod)

parseSGRMouseEvent(b) ==
    LET str      == SubSeq(b, 4, Len(b))
        matches  == mouseSGRRegex(str)
        release  == matches[5] = Str(<<"m">>)
        p        == parseMouseButton(Atoi(matches[2]))
        x        == Atoi(matches[3]) - 1
        y        == Atoi(matches[4]) - 1
    IN  IF Len(matches) # 5 THEN UnknownCsiEvent(b)
        ELSE IF ~p.isMotion /\ ~isWheel(p.btn) /\ release
             THEN MouseUpEvent(x, y, p.btn, p.mod)
        ELSE IF p.isMotion THEN MouseMoveEvent(x, y, p.btn, p.mod)
        ELSE MouseDownEvent(x, y, p.btn, p.mod)

x10MouseByteOffset == 32

\* The X10 parser without the b >= x10MouseByteOffset test
parseX10MouseEventAlwaysOffset(b) ==
    LET v  == SubSeq(b, 4, 6)
        p  == parseMouseButton(v[1] - x10MouseByteOffset)
        x  == v[2] - x10MouseByteOffset - 1
        y  == v[3] - x10MouseByteOffset - 1
    IN  IF p.isMotion THEN MouseMoveEvent(x, y, p.btn, p.mod)
        ELSE IF p.isRelease THEN MouseUpEvent(x, y, p.btn, p.mod)
        ELSE MouseDownEvent(x, y, p.btn, p.mod)

parseX10MouseEvent(b) ==
    LET v  == SubSeq(b, 4, 6)
        cb == IF v[1] >= x10MouseByteOffset THEN v[1] - x10MouseByteOffset ELSE v[1]
        p  == parseMouseButton(cb)
        x  == v[2] - x10MouseByteOffset - 1
        y  == v[3] - x10MouseByteOffset - 1
    IN  IF p.isMotion THEN MouseMoveEvent(x, y, p.btn, p.mod)
        ELSE IF p.isRelease THEN MouseUpEvent(x, y, p.btn, p.mod)
        ELSE MouseDownEvent(x, y, p.btn, p.mod)

-----------------------------------------------------------------------------
(* Decoding a buffer: the table lookup and the dynamic CSI parser.  The     *)
(* source of both is outside the files at hand; they follow the decoding   *)
(* policy of the specification.                                             *)

\* The longest prefix of buf that is a key of t: its event and its length;
\* no event and nothing consumed when there is none.
lookup(t, bytes) ==
    LET hits == {n \in 1..Len(bytes) : SubSeq(bytes, 1, n) \in DOMAIN t}
    IN  IF hits = {} THEN [via |-> "table", event |-> Nil, consumed |-> 0]
        ELSE LET n == CHOOSE h \in hits : \A g \in hits : g <= h
             IN  [via |-> "table", event |-> KeyDownEvent(t[SubSeq(bytes, 1, n)]),
                  consumed |-> n]

\* The ;-separated decimal parameters of bytes from index i on, each a list
\* of one sub-parameter, and the index of the byte that ends them (0 when
\* bytes ends first).
RECURSIVE csiParams(_, _)
csiParams(bytes, i) ==
    LET e == DigitsEnd(bytes, i)
        p == <<Atoi(SubSeq(bytes, i, e - 1))>>
    IN  IF e > Len(bytes) THEN [params |-> << >>, final |-> 0]
        ELSE IF bytes[e] = Ord[";"]
             THEN LET rest == csiParams(bytes, e + 1)
                  IN  [params |-> <<p>> \o rest.params, final |-> rest.final]
        ELSE [params |-> <<p>>, final |-> e]

\* ESC [ <params> <final>: a sequence 27 ; <modifier> ; <code> ~ goes to
\* parseXTermModifyOtherKeys; the bytes up to the final byte are consumed.
parseCsi(bytes) ==
    LET c == csiParams(bytes, 3)
    IN  IF c.final = 0 THEN [via |-> "csi", event |-> Nil, consumed |-> 0]
        ELSE IF /\ bytes[c.final] = Ord["~"]
                /\ Len(c.params) = 3
                /\ c.params[1][1] = 27
             THEN [via |-> "csi", event |-> parseXTermModifyOtherKeys(c.params),
                   consumed |-> c.final]
        ELSE [via |-> "csi", event |-> UnknownCsiEvent(SubSeq(bytes, 1, c.final)),
              consumed |-> c.final]

-----------------------------------------------------------------------------
(* The color-reply decoder *)

\* color.RGBA{r, g, b, a}
RGBA(r, g, b, a) == [R |-> r, G |-> g, B |-> b, A |-> a]

\* color.Black, as the 8-bit RGBA color it converts to
Black == RGBA(0, 0, 0, 255)

\* strings.HasPrefix(s, prefix)
HasPrefix(s, prefix) == Len(s) >= Len(prefix) /\ SubSeq(s, 1, Len(prefix)) = prefix

\* strings.Split(s, "/")
RECURSIVE Split(_)
Split(s) ==
    LET cuts == {i \in 1..Len(s) : s[i] = Ord["/"]}
    IN  IF cuts = {} THEN <<s>>
        ELSE LET i == CHOOSE i \in cuts : \A j \in cuts : i <= j
             IN  <<SubSeq(s, 1, i - 1)>> \o Split(SubSeq(s, i + 1, Len(s)))

\* The value of a hexadecimal digit, -1 for any other byte
HexValue(c) ==
    IF c >= Ord["0"] /\ c <= Ord["9"] THEN c - Ord["0"]
    ELSE IF c >= Ord["a"] /\ c <= Ord["f"] THEN c - Ord["a"] + 10
    ELSE IF c >= Ord["A"] /\ c <= Ord["F"] THEN c - Ord["A"] + 10
    ELSE -1

\* The hexadecimal value of a string of hexadecimal digits
RECURSIVE HexFold(_)
HexFold(s) ==
    IF s = << >> THEN 0
    ELSE 16 * HexFold(SubSeq(s, 1, Len(s) - 1)) + HexValue(s[Len(s)])

\* r, _ := strconv.ParseUint(s, 16, 32): 0 on a syntax error.  A value needs
\* more than eight digits to leave 32 bits; the strings decoded here have at
\* most MaxHexDigits + 1 digits, so the range error never arises.
ParseUint(s) ==
    IF s = << >> \/ \E i \in 1..Len(s) : HexValue(s[i]) < 0 THEN 0
    ELSE HexFold(s)

\* uint8(v)
Uint8(v) == v % 256

xParseColor(s) ==
    IF HasPrefix(s, Str(<<"r", "g", "b", ":">>)) THEN
        LET parts == Split(SubSeq(s, 5, Len(s)))
        IN  IF Len(parts) # 3 THEN Black
            ELSE RGBA(Uint8(ParseUint(parts[1])), Uint8(ParseUint(parts[2])),
                      Uint8(ParseUint(parts[3])), 255)
    ELSE IF HasPrefix(s, Str(<<"r", "g", "b", "a", ":">>)) THEN
        LET parts == Split(SubSeq(s, 6, Len(s)))
        IN  IF Len(parts) # 4 THEN Black
            ELSE RGBA(Uint8(ParseUint(parts[1])), Uint8(ParseUint(parts[2])),
                      Uint8(ParseUint(parts[3])), Uint8(ParseUint(parts[4])))
    ELSE Black

-----------------------------------------------------------------------------
(* Specifications.  Each part of the decoder runs on its own: the variables *)
(* of the other parts stay at their idle values.                            *)

vars == <<flags, pc, table, first, terminfo, record, event, wire, buf, mouseEvent,
         reply, colorStr, colorOut, codes, buttons, input, decoded>>

Pending == [type |-> "pending"]

driverVars == <<flags, pc, table, first, terminfo>>
win32Vars  == <<record, event>>
mouseVars  == <<wire, buf, mouseEvent>>
colorVars  == <<reply, colorStr, colorOut>>
buttonVars == <<codes, buttons>>
decodeVars == <<input, decoded>>

IdleDriver ==
    flags = {} /\ pc = "idle" /\ table = << >> /\ first = << >> /\ terminfo = << >>
IdleWin32  == record = << >> /\ event = Pending
IdleMouse  == wire = << >> /\ buf = << >> /\ mouseEvent = Pending
IdleColor  == reply = << >> /\ colorStr = << >> /\ colorOut = Pending
IdleButton == codes = << >> /\ buttons = Pending
IdleDecode == input = << >> /\ decoded = Pending

-----------------------------------------------------------------------------
(* Driver.registerKeys *)

\* Flag sets with terminfo suppressed.
FlagSets == {fl \in SUBSET FlagNames : "FlagNoTerminfo" \in fl}

InitDriver ==
    /\ flags \in FlagSets
    /\ pc = "literal"
    /\ table = << >>
    /\ first = << >>
    /\ terminfo = << >>
    /\ IdleWin32 /\ IdleMouse /\ IdleColor /\ IdleButton /\ IdleDecode

\* d.table = map[string]KeyDownEvent{ ... }
BuildLiteral ==
    /\ pc = "literal"
    /\ table' = tableLiteral(flags)
    /\ pc' = "xterm"
    /\ UNCHANGED <<flags, first, terminfo, win32Vars, mouseVars, colorVars, buttonVars, decodeVars>>

\* XTerm modifiers
RegisterXTerm ==
    /\ pc = "xterm"
    /\ table' = registerXTerm(flags, table)
    /\ pc' = "urxvt"
    /\ UNCHANGED <<flags, first, terminfo, win32Vars, mouseVars, colorVars, buttonVars, decodeVars>>

\* URxvt keys
RegisterURxvt ==
    /\ pc = "urxvt"
    /\ table' = registerURxvt(flags, table)
    /\ pc' = "alt"
    /\ UNCHANGED <<flags, first, terminfo, win32Vars, mouseVars, colorVars, buttonVars, decodeVars>>

\* Register Alt + <key> combinations; registerKeys then returns, or goes on
\* to registerTerminfoKeys when FlagNoTerminfo is clear.
RegisterAlt ==
    /\ pc = "alt"
    /\ \E revisit \in SUBSET Revisitable : table' = registerAlt(table, revisit)
    /\ pc' = IF Has(flags, "FlagNoTerminfo") THEN "done" ELSE "terminfo"
    /\ UNCHANGED <<flags, first, terminfo, win32Vars, mouseVars, colorVars, buttonVars, decodeVars>>

NextDriver == BuildLiteral \/ RegisterXTerm \/ RegisterURxvt \/ RegisterAlt

SpecDriver == InitDriver /\ [][NextDriver]_vars

\* C4 as stated: when registerKeys has returned, no stored key is the empty
\* string and every stored sequence begins with ESC (0x1b), a C0 control byte
\* (0x00..0x1f) or DEL (0x7f).
C4_FirstByteEscC0Del ==
    pc = "done" =>
        \A k \in DOMAIN table :
            k # << >> /\ (k[1] = 27 \/ k[1] \in 0..31 \/ k[1] = 127)

\* C4 amended: when registerKeys has returned, no stored key is the empty
\* string and every stored sequence begins with ESC (0x1b), a C0 control byte
\* (0x00..0x1f), SP (0x20) or DEL (0x7f).
C4_FirstByteEscC0SpDel ==
    pc = "done" =>
        \A k \in DOMAIN table :
            k # << >> /\ (k[1] = 27 \/ k[1] \in 0..31 \/ k[1] = 32 \/ k[1] = 127)

\* registerKeys has returned with SP, DEL, Alt+SP and an entry of the XTerm
\* loops stored.
C4_Witness ==
    /\ pc = "done"
    /\ {<<32>>, <<127>>, <<27, 32>>} \subseteq DOMAIN table
    /\ Str(<<"ESC", "[", "1", ";", "2", "A">>) \in DOMAIN table

\* C5: the Alt loop maps ESC||seq to ev with the Alt bit added, and leaves
\* seq mapped to ev, for every entry (seq -> ev) in the table when it starts.
C5_AltDuplication ==
    [][pc = "alt" =>
        \A seq \in DOMAIN table :
            /\ <<27>> \o seq \in DOMAIN table'
            /\ table'[<<27>> \o seq] =
                   [table[seq] EXCEPT !.Mod = IF (@ \div 2) % 2 = 1 THEN @ ELSE @ + 2]
            /\ seq \in DOMAIN table'
            /\ table'[seq] = table[seq]]_vars

\* The Alt loop has run on a table in which ESC [ A was Up without modifiers
\* and ESC [ 1 ; 2 A was Up with Shift.
C5_Witness ==
    /\ pc = "done"
    /\ "FlagNoXTerm" \notin flags
    /\ table[Str(<<"ESC", "[", "A">>)] = Key("KeyUp", 0, 0)
    /\ table[Str(<<"ESC", "ESC", "[", "A">>)] = Key("KeyUp", 0, 2)
    /\ table[Str(<<"ESC", "[", "1", ";", "2", "A">>)].Mod = 1
    /\ table[Str(<<"ESC", "ESC", "[", "1", ";", "2", "A">>)].Mod = 3

\* The finals of the CSI function keys, the wire digits of n + 1, and the
\* modifier combinations in the order C7 lists them.
C7_Finals == {"A", "B", "C", "D", "E", "F", "H", "P", "Q", "R", "S"}
C7_Wire == [n \in 1..15 |-> IF n + 1 < 10 THEN <<48 + n + 1>> ELSE <<49, 48 + n + 1 - 10>>]
C7_Combinations ==
    << {"Shift"}, {"Alt"}, {"Shift", "Alt"}, {"Ctrl"}, {"Shift", "Ctrl"},
       {"Alt", "Ctrl"}, {"Shift", "Alt", "Ctrl"}, {"Meta"}, {"Meta", "Shift"},
       {"Meta", "Alt"}, {"Meta", "Shift", "Alt"}, {"Meta", "Ctrl"},
       {"Meta", "Shift", "Ctrl"}, {"Meta", "Alt", "Ctrl"},
       {"Meta", "Shift", "Alt", "Ctrl"} >>
C7_ModOf(c) ==
    (IF "Shift" \in c THEN Shift ELSE 0) + (IF "Alt" \in c THEN Alt ELSE 0)
    + (IF "Ctrl" \in c THEN Ctrl ELSE 0) + (IF "Meta" \in c THEN Meta ELSE 0)

\* C7: without FlagNoXTerm, for n in 1..15 and every final F of the CSI
\* function keys, the table maps ESC [ 1 ; (n+1) F to the symbol of ESC [ F
\* with the n-th modifier combination; with FlagNoXTerm it holds none of
\* these sequences.
C7_XTermModifiedFunctionKeys ==
    pc = "done" =>
        \A n \in 1..15, F \in C7_Finals :
            LET seq == Str(<<"ESC", "[", "1", ";">>) \o C7_Wire[n] \o Str(<<F>>)
            IN  IF "FlagNoXTerm" \in flags THEN seq \notin DOMAIN table
                ELSE /\ seq \in DOMAIN table
                     /\ table[seq].Sym = table[Str(<<"ESC", "[", F>>)].Sym
                     /\ table[seq].Sym # KeyNone
                     /\ table[seq].Rune = 0
                     /\ table[seq].Mod = C7_ModOf(C7_Combinations[n])

\* Without FlagNoXTerm, registerKeys has returned and ESC [ 1 ; 5 C is Right
\* with Ctrl only.
C7_Witness ==
    /\ pc = "done"
    /\ "FlagNoXTerm" \notin flags
    /\ table[Str(<<"ESC", "[", "1", ";", "5", "C">>)] = Key("KeyRight", 0, Ctrl)

\* registerKeys is run once more with the same flags; first keeps the table
\* the run before ended with.
Rerun ==
    /\ pc = "done"
    /\ first = << >>
    /\ first' = table
    /\ table' = << >>
    /\ pc' = "literal"
    /\ UNCHANGED <<flags, terminfo, win32Vars, mouseVars, colorVars, buttonVars, decodeVars>>

NextTwoRuns == NextDriver \/ Rerun

\* The second run is followed for the flag sets with at most MaxFlags flags
\* beside FlagNoTerminfo.
MaxFlags == 1

InitTwoRuns ==
    /\ InitDriver
    /\ Cardinality(flags \ {"FlagNoTerminfo"}) <= MaxFlags

SpecTwoRuns == InitTwoRuns /\ [][NextTwoRuns]_vars

\* C6: two runs of registerKeys with the same flags end with identical
\* tables, whatever the Alt loop visits.
C6_RunsAgree == (pc = "done" /\ first # << >>) => table = first

-----------------------------------------------------------------------------
(* Driver.registerKeys with a terminfo accessor *)

\* The bytes of the capabilities an accessor may have: khome is a sequence
\* the table literal stores, kf1 one that no earlier phase stores, kf2 the
\* same behind an ESC.
TerminfoCaps ==
    "khome" :> Str(<<"ESC", "[", "1", "~">>)
    @@ "kf1" :> Str(<<"ESC", "[", "[", "A">>)
    @@ "kf2" :> Str(<<"ESC", "ESC", "[", "[", "A">>)

Accessors == {[c \in D |-> TerminfoCaps[c]] : D \in SUBSET DOMAIN TerminfoCaps}

OverlayFlagSets ==
    {{}, {"FlagFind"}, {"FlagNoTerminfo"}, {"FlagFind", "FlagNoTerminfo"}}

InitOverlay ==
    /\ flags \in OverlayFlagSets
    /\ pc = "literal"
    /\ table = << >>
    /\ first = << >>
    /\ terminfo \in Accessors
    /\ IdleWin32 /\ IdleMouse /\ IdleColor /\ IdleButton /\ IdleDecode

\* d.registerTerminfoKeys()
RegisterTerminfo ==
    /\ pc = "terminfo"
    /\ table' = registerTerminfoKeys(terminfo, table)
    /\ pc' = "done"
    /\ UNCHANGED <<flags, first, terminfo, win32Vars, mouseVars, colorVars, buttonVars, decodeVars>>

NextOverlay == NextDriver \/ RegisterTerminfo

SpecOverlay == InitOverlay /\ [][NextOverlay]_vars

\* The sequences the accessor returns
Returned == {terminfo[c] : c \in DOMAIN terminfo}

\* The parts of C15 that do not depend on what the accessor returns: the
\* overlay starts only from the end of the Alt loop and only with
\* FlagNoTerminfo clear, registerKeys returns without it exactly when the flag
\* is set, the Alt loop stores ESC||s for every sequence s the earlier phases
\* stored, and the overlay removes nothing.
C15_Ordering ==
    /\ pc' = "terminfo" => (pc = "alt" /\ ~Has(flags, "FlagNoTerminfo"))
    /\ (pc = "alt" /\ pc' = "done") => Has(flags, "FlagNoTerminfo")
    /\ pc = "alt" =>
          /\ pc' \in {"terminfo", "done"}
          /\ \A s \in DOMAIN table : EscPrefixed(s) \in DOMAIN table'
    /\ pc = "terminfo" => (pc' = "done" /\ DOMAIN table \subseteq DOMAIN table')

\* C15 as stated: the terminfo overlay runs only when FlagNoTerminfo is not
\* set and always after the Alt-duplication phase, so for a sequence s that
\* only the overlay puts in the table ESC||s is not in the final table, while
\* every sequence of the earlier phases has its ESC-prefixed variant.
C15_NoAltOfTerminfoSequence ==
    [][/\ C15_Ordering
       /\ pc = "terminfo" =>
             \A s \in DOMAIN table' \ DOMAIN table :
                 EscPrefixed(s) \notin DOMAIN table']_vars

\* C15 amended: the terminfo overlay runs only when FlagNoTerminfo is not set
\* and always after the Alt-duplication phase, and it stores the returned
\* sequences and nothing else: for a sequence s that only the overlay puts in
\* the table, ESC||s is in the final table only if an earlier phase stored it
\* or the accessor returned it as well; every sequence of the earlier phases
\* has its ESC-prefixed variant.
C15_NoAltDerivedFromTerminfo ==
    [][/\ C15_Ordering
       /\ pc = "terminfo" =>
             /\ DOMAIN table' = DOMAIN table \cup Returned
             /\ \A s \in DOMAIN table' \ DOMAIN table :
                    EscPrefixed(s) \in DOMAIN table' =>
                        (EscPrefixed(s) \in DOMAIN table
                            \/ EscPrefixed(s) \in Returned)]_vars

\* registerKeys has returned after an overlay that stored ESC [ [ A: its
\* ESC-prefixed variant is missing, the one of ESC [ A is there.
C15_Witness ==
    /\ pc = "done"
    /\ ~Has(flags, "FlagNoTerminfo")
    /\ DOMAIN terminfo = {"kf1"}
    /\ <<27, 91, 91, 65>> \in DOMAIN table
    /\ <<27, 27, 91, 91, 65>> \notin DOMAIN table
    /\ <<27, 91, 65>> \in DOMAIN table
    /\ <<27, 27, 91, 65>> \in DOMAIN table

-----------------------------------------------------------------------------
(* Decoding one buffer against a built table *)

\* registerKeys with terminfo suppressed, from the first phase to the last
registerKeys(fl, revisit) ==
    registerAlt(registerURxvt(fl, registerXTerm(fl, tableLiteral(fl))), revisit)

\* The modifier parameters and the codes of the modifyOtherKeys inputs
OtherModifiers == 1..16
OtherCodes == DOMAIN modifyOtherKeys \cup {0, Ord["a"]}

\* ESC [ 27 ; <modifier> ; <code> ~
OtherKeysInput(m, c) ==
    Str(<<"ESC", "[", "2", "7", ";">>) \o Itoa(m) \o Str(<<";">>) \o Itoa(c)
        \o Str(<<"~">>)

\* The modifyOtherKeys inputs, alone and followed by a byte of the next
\* input, and two sequences of other shapes
DecodeInputs ==
    {OtherKeysInput(m, c) \o tail : m \in OtherModifiers, c \in OtherCodes,
                                   tail \in {<< >>, Str(<<"A">>)}}
    \cup {Str(<<"ESC", "[", "A">>), Str(<<"ESC", "[", "1", ";", "5", "C">>)}

InitDecode ==
    /\ flags \in {{"FlagNoTerminfo"}, {"FlagNoTerminfo", "FlagNoXTerm"}}
    /\ pc = "done"
    /\ table = registerKeys(flags, {})
    /\ first = << >>
    /\ terminfo = << >>
    /\ input \in DecodeInputs
    /\ decoded = Pending
    /\ IdleWin32 /\ IdleMouse /\ IdleColor /\ IdleButton

LookupTable ==
    /\ decoded = Pending
    /\ decoded' = lookup(table, input)
    /\ UNCHANGED <<input, driverVars, win32Vars, mouseVars, colorVars, buttonVars>>

ParseCsi ==
    /\ decoded = Pending
    /\ decoded' = parseCsi(input)
    /\ UNCHANGED <<input, driverVars, win32Vars, mouseVars, colorVars, buttonVars>>

NextDecode == LookupTable \/ ParseCsi

SpecDecode == InitDecode /\ [][NextDecode]_vars

\* C13 as stated: ESC [ 27 ; 6 ; 13 ~, looked up in the table built with the
\* XTerm keys or handed to the modifyOtherKeys parser, yields
\* KeyDown{Enter, Shift+Ctrl} and consumes 11 bytes.
C13_EnterShiftCtrlConsumes11 ==
    (/\ decoded # Pending
     /\ input = <<27, 91, 50, 55, 59, 54, 59, 49, 51, 126>>
     /\ (decoded.via = "csi" \/ "FlagNoXTerm" \notin flags))
        => /\ decoded.event = [type |-> "KeyDownEvent",
                               key |-> [Sym |-> "KeyEnter", Rune |-> 0, Mod |-> 1 + 4,
                                        IsRepeat |-> FALSE]]
           /\ decoded.consumed = 11

\* C13 amended: ESC [ 27 ; 6 ; 13 ~, alone or followed by another byte,
\* looked up in the table built with the XTerm keys or handed to the
\* modifyOtherKeys parser, yields KeyDown{Enter, Shift+Ctrl} and consumes
\* 10 bytes.
C13_EnterShiftCtrlConsumes10 ==
    (/\ decoded # Pending
     /\ \/ input = <<27, 91, 50, 55, 59, 54, 59, 49, 51, 126>>
        \/ input = <<27, 91, 50, 55, 59, 54, 59, 49, 51, 126, 65>>
     /\ (decoded.via = "csi" \/ "FlagNoXTerm" \notin flags))
        => /\ decoded.event = [type |-> "KeyDownEvent",
                               key |-> [Sym |-> "KeyEnter", Rune |-> 0, Mod |-> 1 + 4,
                                        IsRepeat |-> FALSE]]
           /\ decoded.consumed = 10

\* ESC [ 27 ; 6 ; 13 ~ was found in the table.
C13_Witness ==
    /\ input = <<27, 91, 50, 55, 59, 54, 59, 49, 51, 126>>
    /\ decoded # Pending
    /\ decoded.via = "table"
    /\ "FlagNoXTerm" \notin flags
    /\ decoded.event.type = "KeyDownEvent"

-----------------------------------------------------------------------------
(* parseWin32InputKeyEvent on one console key record *)

MaxRepeat == 3

\* Virtual-key codes: those of vkKeyEvent and four it does not hold.
VirtualKeys == DOMAIN vkKeyEvent \cup {"VK_A", "VK_CAPITAL", "VK_OEM_6", "VK_SHIFT"}

\* Characters: none, C0 bytes with and without a case in vkCtrlRune, '@', 'a'
RuneSample == {0, 1, 27, 29, Ord["@"], Ord["a"]}

\* Control-key states: every combination of four bits, and each other bit alone
CksSample ==
    SUBSET {"LEFT_CTRL_PRESSED", "LEFT_ALT_PRESSED", "SHIFT_PRESSED", "NUMLOCK_ON"}
    \cup {{s} : s \in ControlKeyStates}

InitWin32 ==
    /\ record \in [vkc : VirtualKeys, r : RuneSample, keyDown : BOOLEAN,
                   cks : CksSample, repeatCount : 0..MaxRepeat]
    /\ event = Pending
    /\ IdleDriver /\ IdleMouse /\ IdleColor /\ IdleButton /\ IdleDecode

ParseWin32 ==
    /\ event = Pending
    /\ event' = parseWin32InputKeyEvent(record.vkc, record.r, record.keyDown,
                                        record.cks, record.repeatCount)
    /\ UNCHANGED <<record, driverVars, mouseVars, colorVars, buttonVars, decodeVars>>

SpecWin32 == InitWin32 /\ [][ParseWin32]_vars

\* C1: every key event the translator returns, KeyDown or KeyUp, alone or as
\* a member of a MultiEvent, has IsRepeat set exactly when the record's
\* repeat count is > 1.
C1_IsRepeatIffRepeated ==
    LET returned == IF event.type = "MultiEvent"
                    THEN {event.events[i] : i \in DOMAIN event.events}
                    ELSE IF event.type \in {"KeyDownEvent", "KeyUpEvent"} THEN {event}
                    ELSE {}
    IN  \A e \in returned : e.key.IsRepeat = (record.repeatCount > 1)

\* C10: a MultiEvent is returned only for a repeat count > 1 and then holds
\* exactly repeatCount identical copies of the key event the record
\* translates to; for a repeat count of 0 or 1 the result is no batch.
C10_MultiHoldsRepeatCountCopies ==
    LET single == parseWin32InputKeyEvent(record.vkc, record.r, record.keyDown,
                                          record.cks, 1)
        same(e) == /\ e.type = single.type
                   /\ e.key.Sym = single.key.Sym
                   /\ e.key.Rune = single.key.Rune
                   /\ e.key.Mod = single.key.Mod
    IN  /\ event.type = "MultiEvent" =>
            /\ record.repeatCount > 1
            /\ Len(event.events) = record.repeatCount
            /\ Len(event.events) >= 2
            /\ \A i \in DOMAIN event.events :
                   event.events[i] = event.events[1] /\ same(event.events[i])
        /\ (event # Pending /\ record.repeatCount <= 1) =>
            event.type \in {"nil", "KeyDownEvent", "KeyUpEvent"}
        /\ (event # Pending /\ record.repeatCount > 1) =>
            event.type \in {"nil", "MultiEvent"}

\* C11: every key event the translator returns has a symbol or a non-zero
\* character; a record that would give neither yields no key event.
C11_SymbolOrRune ==
    LET returned == IF event.type = "MultiEvent"
                    THEN {event.events[i] : i \in DOMAIN event.events}
                    ELSE IF event.type \in {"KeyDownEvent", "KeyUpEvent"} THEN {event}
                    ELSE {}
    IN  \A e \in returned : e.key.Sym # KeyNone \/ e.key.Rune # 0

\* C12: the translator returns no event exactly when a lock bit (NumLock,
\* CapsLock, ScrollLock) is set and the key the record translates to has
\* neither symbol nor character, whatever Ctrl, Alt and Shift add to it; a
\* record whose key has a symbol or a character is never dropped.
C12_LockOnlyDropped ==
    event # Pending =>
        LET locks   == {"NUMLOCK_ON", "CAPSLOCK_ON", "SCROLLLOCK_ON"}
            locked  == record.cks \cap locks # {}
            plain   == parseWin32InputKeyEvent(record.vkc, record.r, TRUE,
                                               record.cks \ locks, 1)
            neither == plain.key.Sym = KeyNone /\ plain.key.Rune = 0
        IN  /\ plain.type = "KeyDownEvent"
            /\ (event = Nil) <=> (locked /\ neither)
            /\ (record.vkc \in {"VK_CAPITAL", "VK_SHIFT"} /\ record.r = 0 /\ locked)
                   => event = Nil
            /\ record.vkc = "VK_RETURN" => event # Nil

\* A Shift key record with Ctrl, Alt, Shift and NumLock in its control-key
\* state has been dropped.
C12_Witness ==
    /\ event = Nil
    /\ record.vkc = "VK_SHIFT"
    /\ record.r = 0
    /\ record.cks = {"LEFT_CTRL_PRESSED", "LEFT_ALT_PRESSED", "SHIFT_PRESSED", "NUMLOCK_ON"}

\* A release record with repeat count MaxRepeat has been translated to a batch.
C10_Witness ==
    /\ event.type = "MultiEvent"
    /\ record.repeatCount = MaxRepeat
    /\ ~record.keyDown
    /\ record.vkc = "VK_RETURN"

-----------------------------------------------------------------------------
(* The mouse parsers on one input buffer *)

MaxButtonCode == 255

SGRCoords == {0, 1, 5, 10}

\* ESC [ < b ; x ; y T
SGRInput(b, x, y, T) ==
    Str(<<"ESC", "[", "<">>) \o Itoa(b) \o Str(<<";">>) \o Itoa(x) \o Str(<<";">>)
        \o Itoa(y) \o Str(<<T>>)

SGRFields == [kind : {"SGR"}, b : 0..MaxButtonCode, x : SGRCoords, y : {1, 5},
              T : {"M", "m"}]

\* SGR inputs the regular expression does not match, or matches in part
SGROdd ==
    { Str(<<"ESC", "[", "<", "0", ";", "1", "M">>),
      Str(<<"ESC", "[", "<", "0", ";", "1", ";", "1", "~">>),
      Str(<<"ESC", "[", "<", "1", ";", "2", ";", "3", ";", "4", "m">>) }

X10Coords == {32, 33, 42, 255}

\* ESC [ M followed by the three bytes
X10Input(cb, cx, cy) == Str(<<"ESC", "[", "M">>) \o <<cb, cx, cy>>

X10Fields == [kind : {"X10"}, cb : {c \in 0..MaxButtonCode : c <= 255}, cx : X10Coords, cy : {33, 37}]

\* The buffer a report's fields encode to
Encode(w) ==
    IF w.kind = "SGR" THEN SGRInput(w.b, w.x, w.y, w.T)
    ELSE IF w.kind = "X10" THEN X10Input(w.cb, w.cx, w.cy)
    ELSE w.raw

InitMouse ==
    /\ wire \in SGRFields \cup X10Fields \cup [kind : {"odd"}, raw : SGROdd]
    /\ buf = Encode(wire)
    /\ mouseEvent = Pending
    /\ IdleDriver /\ IdleWin32 /\ IdleColor /\ IdleButton /\ IdleDecode

ParseSGR ==
    /\ mouseEvent = Pending
    /\ HasPrefix(buf, Str(<<"ESC", "[", "<">>))
    /\ mouseEvent' = parseSGRMouseEvent(buf)
    /\ UNCHANGED <<wire, buf, driverVars, win32Vars, colorVars, buttonVars, decodeVars>>

ParseX10 ==
    /\ mouseEvent = Pending
    /\ HasPrefix(buf, Str(<<"ESC", "[", "M">>))
    /\ mouseEvent' = parseX10MouseEvent(buf)
    /\ UNCHANGED <<wire, buf, driverVars, win32Vars, colorVars, buttonVars, decodeVars>>

NextMouse == ParseSGR \/ ParseX10

SpecMouse == InitMouse /\ [][NextMouse]_vars

\* C2 as stated: for every button code with the wheel bit 0x40 set, whatever
\* its other bits and whichever the terminator, parseSGRMouseEvent returns a
\* MouseDown event.
C2_WheelBitAlwaysDown ==
    (wire.kind = "SGR" /\ mouseEvent # Pending /\ (wire.b \div 64) % 2 = 1)
        => mouseEvent.type = "MouseDownEvent"

\* C2 amended: for every button code with the wheel bit 0x40 set and the
\* additional-buttons bit 0x80 clear, whatever the motion bit and whichever
\* the terminator, parseSGRMouseEvent returns a MouseDown event.
C2_WheelButtonAlwaysDown ==
    (/\ wire.kind = "SGR"
     /\ mouseEvent # Pending
     /\ (wire.b \div 64) % 2 = 1
     /\ (wire.b \div 128) % 2 = 0)
        => mouseEvent.type = "MouseDownEvent"

\* A wheel report with the motion bit and the release terminator was decoded.
C2_Witness ==
    /\ wire.kind = "SGR"
    /\ wire.b = 64 + 32 + 2
    /\ wire.T = "m"
    /\ mouseEvent.type = "MouseDownEvent"
    /\ mouseEvent.Button = MouseButtonWheelLeft

\* C8: for ESC [ < b ; x ; y T the SGR parser returns (x-1, y-1) and the
\* variant MouseMove if the motion bit 0x20 is set and the decoded button is
\* no wheel, else MouseUp if T is m and the decoded button is no wheel, else
\* MouseDown; ESC [ < 0 ; 1 ; 1 M is MouseDown{0, 0, Left} and
\* ESC [ < 64 ; 10 ; 5 M is MouseDown{9, 4, WheelUp}.
C8_SGRVariantRule ==
    (wire.kind = "SGR" /\ mouseEvent # Pending) =>
        /\ mouseEvent.type \in {"MouseMoveEvent", "MouseUpEvent", "MouseDownEvent"}
        /\ LET motion == (wire.b \div 32) % 2 = 1
               wheel  == mouseEvent.Button \in 4..7
           IN  /\ mouseEvent.X = wire.x - 1
               /\ mouseEvent.Y = wire.y - 1
               /\ mouseEvent.type =
                      IF motion /\ ~wheel THEN "MouseMoveEvent"
                      ELSE IF wire.T = "m" /\ ~wheel THEN "MouseUpEvent"
                      ELSE "MouseDownEvent"
        /\ (wire.b = 0 /\ wire.x = 1 /\ wire.y = 1 /\ wire.T = "M") =>
               mouseEvent = [type |-> "MouseDownEvent", X |-> 0, Y |-> 0,
                             Button |-> 1, Mod |-> 0]
        /\ (wire.b = 64 /\ wire.x = 10 /\ wire.y = 5 /\ wire.T = "M") =>
               mouseEvent = [type |-> "MouseDownEvent", X |-> 9, Y |-> 4,
                             Button |-> 4, Mod |-> 0]

\* ESC [ < 32 ; 10 ; 5 m, a motion report with the release terminator, was
\* decoded to a MouseMove at (9, 4).
C8_Witness ==
    /\ wire = [kind |-> "SGR", b |-> 32, x |-> 10, y |-> 5, T |-> "m"]
    /\ mouseEvent.type = "MouseMoveEvent"
    /\ mouseEvent.X = 9
    /\ mouseEvent.Y = 4

\* The X10 rule for a button byte b: coordinates (cx-33, cy-33); MouseMove if
\* the motion bit is set and the button is no wheel, else MouseUp with button
\* None exactly when bits 0x40 and 0x80 are clear and the low two bits are
\* 0b11, else MouseDown.
C9_Rule(b) ==
    LET motion  == (b \div 32) % 2 = 1
        wheel   == (b \div 64) % 2 = 1 /\ (b \div 128) % 2 = 0
        release == (b \div 64) % 2 = 0 /\ (b \div 128) % 2 = 0 /\ b % 4 = 3
    IN  /\ mouseEvent.X = wire.cx - 33
        /\ mouseEvent.Y = wire.cy - 33
        /\ mouseEvent.type =
               IF motion /\ ~wheel THEN "MouseMoveEvent"
               ELSE IF release THEN "MouseUpEvent"
               ELSE "MouseDownEvent"
        /\ mouseEvent.type = "MouseUpEvent" => mouseEvent.Button = 0
        /\ (wire.cb = 32 /\ wire.cx = 33 /\ wire.cy = 33) =>
               mouseEvent = [type |-> "MouseDownEvent", X |-> 0, Y |-> 0,
                             Button |-> 1, Mod |-> 0]

\* C9 as stated: parseX10MouseEvent subtracts 32 from every button byte and
\* follows the X10 rule for b = cb - 32.
C9_X10OffsetEveryByte ==
    (wire.kind = "X10" /\ mouseEvent # Pending) => C9_Rule(wire.cb - 32)

\* C9 amended: parseX10MouseEvent follows the X10 rule for b = cb - 32 when
\* cb >= 32 and for b = cb when cb < 32.
C9_X10OffsetFrom32 ==
    (wire.kind = "X10" /\ mouseEvent # Pending) =>
        C9_Rule(IF wire.cb >= 32 THEN wire.cb - 32 ELSE wire.cb)

\* A button byte below the offset was decoded as a release.
C9_Witness ==
    /\ wire.kind = "X10"
    /\ wire.cb = 3
    /\ mouseEvent.type = "MouseUpEvent"
    /\ mouseEvent.Button = MouseButtonNone

-----------------------------------------------------------------------------
(* parseMouseButton on two button codes *)

\* The button bytes up to MaxButtonCode
ButtonBytes == {b \in 0..MaxButtonCode : b <= 255}

InitButtons ==
    /\ codes \in ButtonBytes \X ButtonBytes
    /\ buttons = Pending
    /\ IdleDriver /\ IdleWin32 /\ IdleMouse /\ IdleColor /\ IdleDecode

ParseButtons ==
    /\ buttons = Pending
    /\ buttons' = <<parseMouseButton(codes[1]), parseMouseButton(codes[2])>>
    /\ UNCHANGED <<codes, driverVars, win32Vars, mouseVars, colorVars, decodeVars>>

SpecButtons == InitButtons /\ [][ParseButtons]_vars

\* C14 as stated: parseMouseButton gives different results (modifiers,
\* button, is-release, is-motion) for every two different button bytes.
C14_Invertible ==
    (buttons # Pending /\ codes[1] # codes[2]) => buttons[1] # buttons[2]

\* C14 amended: parseMouseButton gives different results for every two
\* different button bytes in which the wheel bit 0x40 is set only with the
\* bits 0x80 and 0x20 clear.
C14_InvertibleOnPlainWheel ==
    LET plain(b) == (b \div 64) % 2 = 1 =>
                        ((b \div 128) % 2 = 0 /\ (b \div 32) % 2 = 0)
    IN  (/\ buttons # Pending
         /\ codes[1] # codes[2]
         /\ plain(codes[1])
         /\ plain(codes[2]))
            => buttons[1] # buttons[2]

\* The bytes 64 and 0, which differ in the wheel bit alone, were decomposed
\* to WheelUp and Left.
C14_Witness ==
    /\ codes = <<64, 0>>
    /\ buttons # Pending
    /\ buttons[1].btn = MouseButtonWheelUp
    /\ buttons[2].btn = MouseButtonLeft

-----------------------------------------------------------------------------
(* xParseColor on one string *)

MaxHexDigits == 4

HexSample == Str(<<"0", "1", "a", "F">>)

\* The strings of 1..MaxHexDigits characters of HexSample
HexStrings ==
    UNION {[1..n -> {HexSample[i] : i \in 1..Len(HexSample)}] : n \in 1..MaxHexDigits}

\* The components of the examples
C1234 == Str(<<"1", "2", "3", "4">>)
C5678 == Str(<<"5", "6", "7", "8">>)
C9abc == Str(<<"9", "a", "b", "c">>)

\* Component lists: the example with one component varied, and lists of two
\* and of four components
ComponentLists ==
    {<<h, C5678, C9abc>> : h \in HexStrings \cup {C1234}}
    \cup {<<C1234, h, C9abc>> : h \in HexStrings}
    \cup {<<C1234, C5678, h>> : h \in HexStrings}
    \cup {<<C1234, C5678>>, <<C1234, C5678, C9abc, Str(<<"8", "0">>)>>}

RECURSIVE Join(_)
Join(parts) ==
    IF Len(parts) = 1 THEN parts[1]
    ELSE parts[1] \o Str(<<"/">>) \o Join(Tail(parts))

ColorPrefixes == {Str(<<"r", "g", "b", ":">>), Str(<<"r", "g", "b", "a", ":">>), Str(<<"#">>)}

InitColor ==
    /\ reply \in [prefix : ColorPrefixes, parts : ComponentLists]
    /\ colorStr = reply.prefix \o Join(reply.parts)
    /\ colorOut = Pending
    /\ IdleDriver /\ IdleWin32 /\ IdleMouse /\ IdleButton /\ IdleDecode

ParseColor ==
    /\ colorOut = Pending
    /\ colorOut' = xParseColor(colorStr)
    /\ UNCHANGED <<reply, colorStr, driverVars, win32Vars, mouseVars, buttonVars, decodeVars>>

SpecColor == InitColor /\ [][ParseColor]_vars

\* C3: for rgb:R/G/B with three components of 1 to 4 hex digits, xParseColor
\* returns the most significant 8 bits of every component (the whole value of
\* a component of one or two digits) and alpha 255; rgb:1234/5678/9abc is
\* r=0x12, g=0x56, b=0x9a.
C3_MostSignificantBits ==
    LET top(h) == IF Len(h) = 4 THEN ParseUint(h) \div 256
                  ELSE IF Len(h) = 3 THEN ParseUint(h) \div 16
                  ELSE ParseUint(h)
    IN  (/\ colorOut # Pending
         /\ reply.prefix = Str(<<"r", "g", "b", ":">>)
         /\ Len(reply.parts) = 3
         /\ \A i \in 1..3 : Len(reply.parts[i]) \in 1..4)
            => colorOut = [R |-> top(reply.parts[1]), G |-> top(reply.parts[2]),
                           B |-> top(reply.parts[3]), A |-> 255]

====
